---- MODULE Spec2Model ----
(***************************************************************************)
(* A model of static/js/app.js: the browser-side triage client.            *)
(*                                                                         *)
(* Text is a sequence of tokens.  A token is either one of the three       *)
(* markup characters "<", ">", "&", a blank " ", or an ordinary token that *)
(* stands for a run of characters none of which is special.  Markup is a   *)
(* sequence of segments: a literal piece of the template (Lit), a piece    *)
(* that came out of a response (Val) or a number (Num).                    *)
(*                                                                         *)
(* A JSON object is a function whose DOMAIN is the set of keys it carries: *)
(* an absent key is undefined in the code.  The answers of the remote      *)
(* services are any of: no answer, a body that is not JSON, the JSON value *)
(* null, or an object whose keys, where present, have the types of the     *)
(* design's data model.  Every element the handlers look up is on the page.*)
(***************************************************************************)
EXTENDS Integers, Sequences, FiniteSets, TLC

VARIABLES
  btnDisabled,       \* btnSubmit.disabled
  btnLabel,          \* btnSubmit content
  resultContent,     \* #result-content markup
  explainContent,    \* #explain-content markup
  resultHidden,      \* #result-panel carries class hidden
  explainHidden,     \* #explain-panel carries class hidden
  uploadStatus,      \* #upload-status text (written by the upload and the image lane)
  form,              \* the seven fields of #triage-form
  outputHidden,      \* #image-extraction-output carries class hidden
  extractionText,    \* #image-extraction-text text
  errorHidden,       \* #image-extraction-error carries class hidden
  errorText,         \* #image-extraction-error text
  stats,             \* #stat-low, #stat-medium, #stat-high
  deptBars,          \* #dept-bars markup
  recentList,        \* #recent-triage-list markup
  alertMsg,          \* what the last handler run passed to alert(), NoAlert if nothing
  inflight,          \* per endpoint, the requests issued and not yet settled
  sent,              \* per endpoint, the requests issued so far
  accepted,          \* per trigger, the user actions that got past the handler's checks
  srvTotal,          \* the remote service: triages it has recorded
  resultSeq,         \* the ordinal (at the service) of the outcome in the result panel
  dashSeq,           \* total_triages of the summary last applied to the dashboard
  last,              \* the handler that ran last, and how it ended
  arg,               \* the argument of a function run on its own
  ret,               \* what a transport function run on its own settled with
  pc                 \* "lanes" for the page; "call" / "done" for a function run on its own

domVars == <<btnDisabled, btnLabel, resultContent, explainContent, resultHidden,
             explainHidden, uploadStatus, form, outputHidden, extractionText,
             errorHidden, errorText, stats, deptBars, recentList>>
netVars == <<inflight, sent, accepted, srvTotal>>
vars == <<domVars, alertMsg, netVars, resultSeq, dashSeq, last, arg, ret, pc>>

-----------------------------------------------------------------------------
(* Bounds of the model *)

MaxTriggers == 2      \* user actions accepted over a run, all lanes together
MaxLen == 2           \* longest hostile text handed to a renderer
MaxScore == 1000      \* the confidence score 1, scores being counted in thousandths

-----------------------------------------------------------------------------
(* JSON objects and text *)

Has(o, k) == k \in DOMAIN o

\* `o.k` compared with null by `!= null`: a number or text that is there
NotNull(o, k) == Has(o, k)

Str(tok) == <<tok>>
Empty == << >>

RECURSIVE NumToText(_)
\* String(n) for a natural n, digit by digit
NumToText(n) ==
  LET d == <<"0", "1", "2", "3", "4", "5", "6", "7", "8", "9">>
  IN IF n < 10 THEN <<d[n + 1]>> ELSE NumToText(n \div 10) \o <<d[(n % 10) + 1]>>

RECURSIVE Join(_, _)
\* Array.prototype.join
Join(list, sep) ==
  IF list = << >> THEN << >>
  ELSE IF Len(list) = 1 THEN list[1]
  ELSE list[1] \o sep \o Join(Tail(list), sep)

RECURSIVE TrimLeft(_)
TrimLeft(s) == IF s # << >> /\ Head(s) = " " THEN TrimLeft(Tail(s)) ELSE s

RECURSIVE TrimRight(_)
TrimRight(s) ==
  IF s # << >> /\ s[Len(s)] = " " THEN TrimRight(SubSeq(s, 1, Len(s) - 1)) ELSE s

\* String.prototype.trim
Trim(s) == TrimRight(TrimLeft(s))

-----------------------------------------------------------------------------
(* Formatter *)

riskBadgeClass(level) ==
  IF level = Str("High") THEN "badge-high"
  ELSE IF level = Str("Medium") THEN "badge-medium"
  ELSE "badge-low"

riskValueClass(level) ==
  IF level = Str("High") THEN "risk-high"
  ELSE IF level = Str("Medium") THEN "risk-medium"
  ELSE "risk-low"

impactClass(impact) ==
  IF impact = Str("high") THEN "high"
  ELSE IF impact = Str("medium") THEN "medium"
  ELSE "low"

EscapeToken(c) ==
  IF c = "<" THEN "&lt;"
  ELSE IF c = ">" THEN "&gt;"
  ELSE IF c = "&" THEN "&amp;"
  ELSE c

\* escapeHtml of a text that is there: textContent in, innerHTML out
escapeHtml(s) == [i \in 1..Len(s) |-> EscapeToken(s[i])]

\* escapeHtml(o.k): '' when o.k is null or undefined
escapeField(o, k) == IF Has(o, k) THEN escapeHtml(o[k]) ELSE Empty

Lit(t) == [k |-> "lit", t |-> t]
Val(t) == [k |-> "val", t |-> t]
Num(n) == [k |-> "num", t |-> n]

\* Math.round(score * 100) for a score given in thousandths
RoundPercent(score) == (score + 5) \div 10
-----------------------------------------------------------------------------
(* Result Renderer *)

\* `o.k || dflt` for a text: dflt when the key is absent or the text is ''
OrText(o, k, dflt) == IF Has(o, k) /\ o[k] # Empty THEN o[k] ELSE dflt

\* the confidence shown in the result panel
ResultConf(data) ==
  IF NotNull(data, "confidence_score") THEN RoundPercent(data.confidence_score) ELSE 0

RECURSIVE JoinEscaped(_)
\* alt.map(escapeHtml).join(', ')
JoinEscaped(alt) ==
  IF alt = << >> THEN << >>
  ELSE IF Len(alt) = 1 THEN <<Val(escapeHtml(alt[1]))>>
  ELSE <<Val(escapeHtml(alt[1])), Lit(", ")>> \o JoinEscaped(Tail(alt))

renderTriageResult(data) ==
  LET risk == OrText(data, "risk_level", Str("Low"))
      conf == ResultConf(data)
      dept == OrText(data, "recommended_department", Str("General Medicine"))
      alt == IF Has(data, "alternative_departments") THEN data.alternative_departments ELSE << >>
      summary == OrText(data, "summary", Empty)
      riskValClass == riskValueClass(risk)
  IN <<Lit("<div class=\"result-row\"><span class=\"result-label\">Risk level</span><span class=\"result-value "),
       Lit(riskValClass), Lit("\">"), Val(escapeHtml(risk)), Lit("</span></div>"),
       Lit("<div class=\"result-row\"><span class=\"result-label\">Confidence</span><span class=\"result-value\">"),
       Num(conf), Lit("%</span></div>"),
       Lit("<div class=\"result-row\"><span class=\"result-label\">Recommended department</span></div>"),
       Lit("<p class=\"result-dept\" style=\"margin:0 0 0.75rem 0\">"), Val(escapeHtml(dept)), Lit("</p>")>>
     \o (IF Len(alt) # 0
         THEN <<Lit("<p style=\"font-size:0.8125rem;color:var(--color-text-muted);margin:0 0 0.75rem 0\">Alternatives: ")>>
              \o JoinEscaped(alt) \o <<Lit("</p>")>>
         ELSE << >>)
     \o (IF summary # Empty
         THEN <<Lit("<p class=\"result-summary\">"), Val(escapeHtml(summary)), Lit("</p>")>>
         ELSE << >>)

\* '(' + f.impact + ')': the impact as it came, 'undefined' when the key is absent
ImpactText(f) == IF Has(f, "impact") THEN f.impact ELSE Str("undefined")

explainItem(f) ==
  <<Lit("<li class=\"explain-item\"><span class=\"explain-factor\">"), Val(escapeField(f, "factor")),
    Lit("</span><span class=\"explain-impact "),
    Lit(impactClass(IF Has(f, "impact") THEN f.impact ELSE Empty)), Lit("\">("),
    Val(ImpactText(f)),
    Lit(")</span><p class=\"explain-desc\">"), Val(escapeField(f, "description")), Lit("</p></li>")>>

RECURSIVE explainItems(_)
explainItems(factors) ==
  IF factors = << >> THEN << >> ELSE explainItem(Head(factors)) \o explainItems(Tail(factors))

\* called with data.contributing_factors: the object and the key stand for that value
renderExplainability(data) ==
  IF ~Has(data, "contributing_factors") \/ Len(data.contributing_factors) = 0
  THEN <<Lit("<p style=\"font-size:0.875rem;color:var(--color-text-muted)\">No factors returned.</p>")>>
  ELSE <<Lit("<ul class=\"explain-list\">")>> \o explainItems(data.contributing_factors) \o <<Lit("</ul>")>>
-----------------------------------------------------------------------------
(* Dashboard Renderer *)

ExcerptLen == 60

\* elLow.textContent = byRisk.Low || 0: the count as text
StatText(byRisk, k) == NumToText(IF Has(byRisk, k) THEN byRisk[k] ELSE 0)

\* data.by_risk_level || {} rendered into the three stat elements
renderStats(data) ==
  LET byRisk == IF Has(data, "by_risk_level") THEN data.by_risk_level ELSE [none |-> 0]
  IN [low |-> StatText(byRisk, "Low"), medium |-> StatText(byRisk, "Medium"),
      high |-> StatText(byRisk, "High")]

\* Math.round((count / total) * 100)
DeptPercent(count, total) == IF total # 0 THEN (200 * count + total) \div (2 * total) ELSE 0

\* one entry of by_department, a pair <<name, count>> in the order the keys iterate
deptItem(d, total) ==
  <<Lit("<div class=\"dept-item\"><div class=\"dept-item-name\">"), Val(escapeHtml(d[1])),
    Lit("</div><div class=\"dept-item-bar\"><div class=\"dept-item-fill\" style=\"width:"),
    Num(DeptPercent(d[2], total)), Lit("%\"></div></div><div class=\"dept-item-count\">"),
    Num(d[2]), Lit("</div></div>")>>

RECURSIVE deptItems(_, _)
deptItems(byDept, total) ==
  IF byDept = << >> THEN << >> ELSE deptItem(Head(byDept), total) \o deptItems(Tail(byDept), total)

renderDeptBars(data) ==
  LET byDept == IF Has(data, "by_department") THEN data.by_department ELSE << >>
      total == IF Has(data, "total_triages") /\ data.total_triages # 0 THEN data.total_triages ELSE 1
  IN IF Len(byDept) # 0 THEN deptItems(byDept, total)
     ELSE <<Lit("<p class=\"empty-state\" style=\"margin:0;\">No data yet.</p>")>>

\* the symptoms excerpt of a recent entry
Excerpt(r) ==
  IF Has(r, "patient_input") /\ Has(r.patient_input, "symptoms") /\ r.patient_input.symptoms # Empty
  THEN LET sym == r.patient_input.symptoms
       IN IF Len(sym) > ExcerptLen THEN SubSeq(sym, 1, ExcerptLen) \o Str("...") ELSE sym
  ELSE Str("-")

\* the confidence shown in the recent feed: nothing when the score is absent or 0
RecentConf(r) ==
  IF Has(r, "confidence_score") /\ r.confidence_score # 0
  THEN <<Num(RoundPercent(r.confidence_score)), Lit("%")>>
  ELSE << >>

recentItem(r) ==
  <<Lit("<div class=\"recent-item\"><div><p class=\"recent-item-dept\">"),
    Val(escapeField(r, "recommended_department")),
    Lit("</p><p class=\"recent-item-symptoms\">"), Val(escapeHtml(Excerpt(r))),
    Lit("</p></div><div class=\"recent-item-meta\">"),
    Lit("<span class=\"badge "),
    Lit(riskBadgeClass(IF Has(r, "risk_level") THEN r.risk_level ELSE Empty)), Lit("\">"),
    Val(escapeField(r, "risk_level")), Lit("</span>"),
    Lit("<span style=\"font-size:0.75rem;color:var(--color-text-muted)\">")>>
  \o RecentConf(r) \o <<Lit("</span></div></div>")>>

RECURSIVE recentItems(_)
recentItems(recent) ==
  IF recent = << >> THEN << >> ELSE recentItem(Head(recent)) \o recentItems(Tail(recent))

\* whether the success handler rewrites the recent feed
HasRecent(data) == Has(data, "recent") /\ Len(data.recent) # 0

\* a feed that gets an empty-state of its own when there is nothing recent
renderRecentOrPlaceholder(data, old) ==
  IF HasRecent(data) THEN recentItems(data.recent)
  ELSE <<Lit("<p class=\"empty-state\" style=\"margin:0;\">No data yet.</p>")>>

renderRecent(data, old) == IF HasRecent(data) THEN recentItems(data.recent) ELSE old

CouldNotLoad == <<Lit("<p class=\"empty-state text-slate-500\">Could not load summary.</p>")>>

-----------------------------------------------------------------------------
(* fillFormFromPatient *)

Undefined == [undefined |-> TRUE]

Truthy(p, k) == Has(p, k) /\ Len(p[k]) # 0

\* systolic + '/' + diastolic whether or not diastolic is there
BloodPressureAlwaysJoined(p) ==
  NumToText(p.blood_pressure_systolic) \o Str("/")
  \o (IF NotNull(p, "blood_pressure_diastolic") THEN NumToText(p.blood_pressure_diastolic)
      ELSE Str("undefined"))

\* the value the blood-pressure field gets, given that systolic is there
BloodPressureText(p) ==
  IF NotNull(p, "blood_pressure_diastolic")
  THEN NumToText(p.blood_pressure_systolic) \o Str("/") \o NumToText(p.blood_pressure_diastolic)
  ELSE NumToText(p.blood_pressure_systolic)

fillFormFromPatient(f, p) ==
  IF p = Undefined THEN f
  ELSE [age |-> IF NotNull(p, "age") THEN NumToText(p.age) ELSE f.age,
        gender |-> IF Truthy(p, "gender") THEN p.gender ELSE f.gender,
        symptoms |-> IF Truthy(p, "symptoms") THEN p.symptoms ELSE f.symptoms,
        blood_pressure |-> IF NotNull(p, "blood_pressure_systolic")
                           THEN BloodPressureText(p) ELSE f.blood_pressure,
        heart_rate |-> IF NotNull(p, "heart_rate") THEN NumToText(p.heart_rate) ELSE f.heart_rate,
        temperature |-> IF NotNull(p, "temperature") THEN NumToText(p.temperature)
                        ELSE f.temperature,
        pre_existing_conditions |->
          IF Truthy(p, "pre_existing_conditions")
          THEN Join(p.pre_existing_conditions, <<",", " ">>)
          ELSE f.pre_existing_conditions]

\* res.patient
PatientOf(res) == IF Has(res, "patient") THEN res.patient ELSE Undefined

\* the raw text the image lane displays
RawText(res) ==
  LET p == PatientOf(res)
  IN IF p # Undefined /\ Truthy(p, "raw_extraction") THEN p.raw_extraction
     ELSE IF p # Undefined /\ Truthy(p, "raw") THEN p.raw
     ELSE Str("No text extracted.")

-----------------------------------------------------------------------------
(* Transport Client *)

\* what fetch settles with
NetFail(m) == [net |-> FALSE, msg |-> m]
Http(ok, body) == [net |-> TRUE, ok |-> ok, body |-> body]
\* a response body: not JSON at all, the JSON value null, or a JSON object
BadJson == [json |-> "bad"]
NullJson == [json |-> "null"]
Obj(o) == [json |-> "obj", v |-> o]

\* what a promise settles with
Resolved(v) == [st |-> "resolved", v |-> v]
Rejected(m) == [st |-> "rejected", msg |-> m]

\* the message of the SyntaxError r.json() rejects with
SyntaxMsg == "Unexpected token < in JSON at position 0"
\* the message of the TypeError that reading key k of null throws
NullMsg(k) == "Cannot read properties of null (reading '" \o k \o "')"

\* j.error || generic
ErrorOr(j, generic) == IF Has(j, "error") /\ j.error # "" THEN j.error ELSE generic

\* fetch(...).then(r => { if (!r.ok) return r.json().then(j => { throw ... }); return r.json(); })
post(resp, generic) ==
  IF ~resp.net THEN Rejected(resp.msg)
  ELSE IF resp.body.json = "bad" THEN Rejected(SyntaxMsg)
  ELSE IF ~resp.ok
       THEN IF resp.body.json = "null" THEN Rejected(NullMsg("error"))
            ELSE Rejected(ErrorOr(resp.body.v, generic))
  ELSE Resolved(resp.body)

triage(resp) == post(resp, "Triage failed")
uploadDocument(resp) == post(resp, "Upload failed")
analyzeDocumentImage(resp) == post(resp, "Analysis failed")

\* fetch(...).then(r => r.json()): r.ok is not looked at
dashboardSummary(resp) ==
  IF ~resp.net THEN Rejected(resp.msg)
  ELSE IF resp.body.json = "bad" THEN Rejected(SyntaxMsg)
  ELSE Resolved(resp.body)

\* err.message without its fallback
MessageOnly(m, fallback) == m

\* err.message || fallback
MessageOr(m, fallback) == IF m # "" THEN m ELSE fallback
-----------------------------------------------------------------------------
(* What the remote services may answer *)

\* the JSON object {} (no key the client reads)
NoKeys == [nokeys |-> TRUE]

NetMessages == {"Failed to fetch", ""}

ErrorBodies == {Obj([error |-> "model unavailable"]), Obj(NoKeys), Obj([error |-> ""]),
                NullJson, BadJson}

Failures == {NetFail(m) : m \in NetMessages} \cup {Http(FALSE, b) : b \in ErrorBodies}

\* TriageResult objects: scenario 1 of the design, a full one, and one with every key absent
TriageData ==
  { [risk_level |-> Str("High"), confidence_score |-> 870,
     recommended_department |-> Str("Cardiology"), contributing_factors |-> << >>],
    [risk_level |-> Str("Medium"), confidence_score |-> 0,
     recommended_department |-> Str("ER"), alternative_departments |-> <<Str("Cardiology")>>,
     summary |-> Str("observe"),
     contributing_factors |-> <<[factor |-> Str("age"), impact |-> Str("high"),
                                 description |-> Str("over 60")]>>],
    NoKeys }

TriageResponses ==
  Failures \cup {Http(TRUE, Obj(d)) : d \in TriageData} \cup {Http(TRUE, NullJson), Http(TRUE, BadJson)}

\* patient objects an extraction may return: scenario 4 of the design, one with an empty
\* text and both raw texts, one with the second raw text only
Patients ==
  { [age |-> 52, blood_pressure_systolic |-> 130, blood_pressure_diastolic |-> 85],
    [gender |-> Empty, symptoms |-> Str("fever"), blood_pressure_systolic |-> 120,
     raw_extraction |-> Str("Pt febrile"), raw |-> Str("OCR: Pt febrile")],
    [raw |-> Str("scan") ] }

ExtractionResponses ==
  Failures \cup {Http(TRUE, Obj([patient |-> p])) : p \in Patients}
           \cup {Http(TRUE, Obj(NoKeys)), Http(TRUE, NullJson), Http(TRUE, BadJson)}

\* the summary of a service that has recorded n triages
SummaryOf(n) ==
  IF n = 0
  THEN [by_risk_level |-> NoKeys, by_department |-> << >>, total_triages |-> 0, recent |-> << >>]
  ELSE [by_risk_level |-> [High |-> n], by_department |-> <<<<Str("Cardiology"), n>>>>,
        total_triages |-> n,
        recent |-> <<[risk_level |-> Str("High"), recommended_department |-> Str("Cardiology"),
                      confidence_score |-> 870,
                      patient_input |-> [symptoms |-> Str("chest pain")]]>>]

DashResponses(n) ==
  {NetFail("Failed to fetch"), Http(TRUE, BadJson), Http(TRUE, NullJson),
   Http(FALSE, Obj([error |-> "db down"])), Http(FALSE, BadJson),
   Http(TRUE, Obj(NoKeys)), Http(TRUE, Obj(SummaryOf(n)))}

\* what the user may type into the symptoms field
SymptomInputs == {Empty, <<" ">>, <<" ", "chest pain", " ">>}

-----------------------------------------------------------------------------
(* The page *)

Endpoints == {"triage", "upload", "image", "dash"}
\* a form submit, a document chosen, an image chosen, a dashboard page asking for its summary
Triggers == {"triage", "upload", "image", "page"}

OriginalLabel ==
  "<span class=\"material-symbols-outlined\" style=\"font-size:1.25rem\">medical_services</span> Run AI triage"
InProgressLabel == "Analyzing..."
NoAlert == "(no alert)"

EmptyForm ==
  [age |-> Empty, gender |-> Empty, symptoms |-> Empty, blood_pressure |-> Empty,
   heart_rate |-> Empty, temperature |-> Empty, pre_existing_conditions |-> Empty]

Ran(h, out) == [h |-> h, out |-> out]

\* the page as loaded, before any event
PageLoaded ==
  /\ btnDisabled = FALSE
  /\ btnLabel = OriginalLabel
  /\ resultContent = << >>
  /\ explainContent = << >>
  /\ resultHidden = TRUE
  /\ explainHidden = TRUE
  /\ uploadStatus = ""
  /\ form = EmptyForm
  /\ outputHidden = TRUE
  /\ extractionText = Empty
  /\ errorHidden = TRUE
  /\ errorText = ""
  /\ stats = [low |-> Empty, medium |-> Empty, high |-> Empty]
  /\ deptBars = << >>
  /\ recentList = << >>
  /\ alertMsg = NoAlert
  /\ inflight = [e \in Endpoints |-> 0]
  /\ sent = [e \in Endpoints |-> 0]
  /\ accepted = [t \in Triggers |-> 0]
  /\ srvTotal = 0
  /\ resultSeq = 0
  /\ dashSeq = 0
  /\ last = Ran("load", "ok")

Init == PageLoaded /\ arg = Undefined /\ ret = Undefined /\ pc = "lanes"

\* the user actions accepted so far
Accepted == accepted["triage"] + accepted["upload"] + accepted["image"] + accepted["page"]

\* a success handler that does not call loadDashboardSummary
FetchSummarySkipped(counts) == counts

\* loadDashboardSummary(): one more request to the summary endpoint
FetchSummary(counts) == [counts EXCEPT !["dash"] = @ + 1]

\* an accepted user action t issues one request to endpoint e
Issue(t, e) ==
  /\ Accepted < MaxTriggers
  /\ accepted' = [accepted EXCEPT ![t] = @ + 1]
  /\ inflight' = [inflight EXCEPT ![e] = @ + 1]
  /\ sent' = [sent EXCEPT ![e] = @ + 1]
triageDom == <<btnDisabled, btnLabel, resultContent, explainContent, resultHidden, explainHidden>>
panelDom == <<resultContent, explainContent, resultHidden, explainHidden>>
imageDom == <<outputHidden, extractionText, errorHidden, errorText>>
dashDom == <<stats, deptBars, recentList>>
fnVars == <<arg, ret, pc>>

-----------------------------------------------------------------------------
(* The user edits the symptoms field *)

EditSymptoms(v) ==
  /\ pc = "lanes"
  /\ form.symptoms # v
  /\ form' = [form EXCEPT !.symptoms = v]
  /\ alertMsg' = NoAlert
  /\ last' = Ran("edit", "ok")
  /\ UNCHANGED <<triageDom, uploadStatus, imageDom, dashDom, netVars, resultSeq, dashSeq, fnVars>>

-----------------------------------------------------------------------------
(* Triage submission lane *)

\* a check of the field as typed, without trim()
SymptomsValidUntrimmed(f) == f.symptoms # Empty

\* form.symptoms.value.trim() is not ''
SymptomsValid(f) == Trim(f.symptoms) # Empty

\* a submit handler that issues the call without touching the button
SubmitLeavesButton ==
  /\ pc = "lanes"
  /\ IF SymptomsValid(form)
     THEN /\ Issue("triage", "triage")
          /\ alertMsg' = NoAlert
          /\ last' = Ran("submit", "sent")
          /\ UNCHANGED <<btnDisabled, btnLabel>>
     ELSE /\ alertMsg' = "Please enter symptoms."
          /\ last' = Ran("submit", "invalid")
          /\ UNCHANGED <<btnDisabled, btnLabel, inflight, sent, accepted>>
  /\ UNCHANGED <<panelDom, uploadStatus, form, imageDom, dashDom, srvTotal, resultSeq,
                 dashSeq, fnVars>>

\* the submit handler of #triage-form
Submit ==
  /\ pc = "lanes"
  /\ IF SymptomsValid(form)
     THEN /\ btnDisabled' = TRUE
          /\ btnLabel' = InProgressLabel
          /\ Issue("triage", "triage")
          /\ alertMsg' = NoAlert
          /\ last' = Ran("submit", "sent")
     ELSE /\ alertMsg' = "Please enter symptoms."
          /\ last' = Ran("submit", "invalid")
          /\ UNCHANGED <<btnDisabled, btnLabel, inflight, sent, accepted>>
  /\ UNCHANGED <<panelDom, uploadStatus, form, imageDom, dashDom, srvTotal, resultSeq,
                 dashSeq, fnVars>>

\* the restoration written at the end of the success handler instead of in .finally()
ButtonRestoredOnSuccessOnly(r, cur) ==
  IF r.st = "resolved" /\ r.v.json = "obj" THEN [disabled |-> FALSE, label |-> OriginalLabel]
  ELSE cur

\* the .finally() of the submit handler: the button after the call has settled
ButtonAfterSettle(r, cur) == [disabled |-> FALSE, label |-> OriginalLabel]

\* a usable result: the promise resolved with a JSON object
Usable(r) == r.st = "resolved" /\ r.v.json = "obj"

\* the message of what the catch handler receives: the rejection, or the TypeError the
\* success handler throws on its first read of a key of null
Caught(r, k) == IF r.st = "rejected" THEN r.msg ELSE NullMsg(k)

\* a success handler that calls loadDashboardSummary before it renders
TriageSettleFetchesFirst(resp) ==
  /\ pc = "lanes"
  /\ inflight["triage"] > 0
  /\ LET r == triage(resp)
         btn == ButtonAfterSettle(r, [disabled |-> btnDisabled, label |-> btnLabel])
     IN /\ IF Usable(r)
           THEN /\ resultContent' = renderTriageResult(r.v.v)
                /\ explainContent' = renderExplainability(r.v.v)
                /\ resultHidden' = FALSE
                /\ explainHidden' = FALSE
                /\ inflight' = FetchSummary([inflight EXCEPT !["triage"] = @ - 1])
                /\ sent' = FetchSummary(sent)
                /\ srvTotal' = srvTotal + 1
                /\ resultSeq' = srvTotal + 1
                /\ alertMsg' = NoAlert
                /\ last' = Ran("triage", "rendered")
           ELSE /\ alertMsg' = MessageOr(Caught(r, "risk_level"), "Triage request failed.")
                /\ IF r.st = "resolved"
                   THEN /\ inflight' = FetchSummary([inflight EXCEPT !["triage"] = @ - 1])
                        /\ sent' = FetchSummary(sent)
                   ELSE /\ inflight' = [inflight EXCEPT !["triage"] = @ - 1]
                        /\ sent' = sent
                /\ last' = Ran("triage", "failed")
                /\ UNCHANGED <<panelDom, srvTotal, resultSeq>>
        /\ accepted' = accepted
        /\ btnDisabled' = btn.disabled
        /\ btnLabel' = btn.label
  /\ UNCHANGED <<uploadStatus, form, imageDom, dashDom, dashSeq, fnVars>>

\* a catch handler that hides the panels of the triage before
TriageSettleHidesOnFailure(resp) ==
  /\ pc = "lanes"
  /\ inflight["triage"] > 0
  /\ LET r == triage(resp)
         btn == ButtonAfterSettle(r, [disabled |-> btnDisabled, label |-> btnLabel])
     IN /\ IF Usable(r)
           THEN /\ resultContent' = renderTriageResult(r.v.v)
                /\ explainContent' = renderExplainability(r.v.v)
                /\ resultHidden' = FALSE
                /\ explainHidden' = FALSE
                /\ inflight' = FetchSummary([inflight EXCEPT !["triage"] = @ - 1])
                /\ sent' = FetchSummary(sent)
                /\ srvTotal' = srvTotal + 1
                /\ resultSeq' = srvTotal + 1
                /\ alertMsg' = NoAlert
                /\ last' = Ran("triage", "rendered")
           ELSE /\ alertMsg' = MessageOr(Caught(r, "risk_level"), "Triage request failed.")
                /\ inflight' = [inflight EXCEPT !["triage"] = @ - 1]
                /\ last' = Ran("triage", "failed")
                /\ resultHidden' = TRUE
                /\ explainHidden' = TRUE
                /\ UNCHANGED <<resultContent, explainContent, sent, srvTotal, resultSeq>>
        /\ accepted' = accepted
        /\ btnDisabled' = btn.disabled
        /\ btnLabel' = btn.label
  /\ UNCHANGED <<uploadStatus, form, imageDom, dashDom, dashSeq, fnVars>>

\* the triage call settles: .then / .catch / .finally of the submit handler
TriageSettle(resp) ==
  /\ pc = "lanes"
  /\ inflight["triage"] > 0
  /\ LET r == triage(resp)
         btn == ButtonAfterSettle(r, [disabled |-> btnDisabled, label |-> btnLabel])
     IN /\ IF Usable(r)
           THEN /\ resultContent' = renderTriageResult(r.v.v)
                /\ explainContent' = renderExplainability(r.v.v)
                /\ resultHidden' = FALSE
                /\ explainHidden' = FALSE
                /\ inflight' = FetchSummary([inflight EXCEPT !["triage"] = @ - 1])
                /\ sent' = FetchSummary(sent)
                /\ srvTotal' = srvTotal + 1
                /\ resultSeq' = srvTotal + 1
                /\ alertMsg' = NoAlert
                /\ last' = Ran("triage", "rendered")
           ELSE /\ alertMsg' = MessageOr(Caught(r, "risk_level"), "Triage request failed.")
                /\ inflight' = [inflight EXCEPT !["triage"] = @ - 1]
                /\ last' = Ran("triage", "failed")
                /\ UNCHANGED <<panelDom, sent, srvTotal, resultSeq>>
        /\ accepted' = accepted
        /\ btnDisabled' = btn.disabled
        /\ btnLabel' = btn.label
  /\ UNCHANGED <<uploadStatus, form, imageDom, dashDom, dashSeq, fnVars>>

-----------------------------------------------------------------------------
(* Document upload lane *)

\* a change handler that returns while a triage call is in flight
UploadChangeWhenIdle(hasFile) ==
  /\ pc = "lanes"
  /\ inflight["triage"] = 0
  /\ IF hasFile
     THEN /\ uploadStatus' = "Uploading..."
          /\ Issue("upload", "upload")
          /\ last' = Ran("upload", "sent")
     ELSE /\ last' = Ran("upload", "nofile")
          /\ UNCHANGED <<uploadStatus, inflight, sent, accepted>>
  /\ alertMsg' = NoAlert
  /\ UNCHANGED <<triageDom, form, imageDom, dashDom, srvTotal, resultSeq, dashSeq, fnVars>>

\* the change handler of #doc-upload
UploadChange(hasFile) ==
  /\ pc = "lanes"
  /\ IF hasFile
     THEN /\ uploadStatus' = "Uploading..."
          /\ Issue("upload", "upload")
          /\ last' = Ran("upload", "sent")
     ELSE /\ last' = Ran("upload", "nofile")
          /\ UNCHANGED <<uploadStatus, inflight, sent, accepted>>
  /\ alertMsg' = NoAlert
  /\ UNCHANGED <<triageDom, form, imageDom, dashDom, srvTotal, resultSeq, dashSeq, fnVars>>

\* a success handler that fills only the fields that are still empty
UploadApplyKeepsEdits(resp) ==
  LET r == uploadDocument(resp)
  IN /\ IF Usable(r)
        THEN /\ uploadStatus' = "Loaded."
             /\ form' = [k \in DOMAIN form |->
                           IF form[k] = Empty
                           THEN fillFormFromPatient(form, PatientOf(r.v.v))[k] ELSE form[k]]
             /\ last' = Ran("upload", "loaded")
        ELSE /\ uploadStatus' = MessageOr(Caught(r, "patient"), "Upload failed")
             /\ form' = form
             /\ last' = Ran("upload", "failed")
     /\ UNCHANGED <<triageDom, imageDom, dashDom>>

\* a catch handler that leaves the status as it is
UploadApplySilentFailure(resp) ==
  LET r == uploadDocument(resp)
  IN /\ IF Usable(r)
        THEN /\ uploadStatus' = "Loaded."
             /\ form' = fillFormFromPatient(form, PatientOf(r.v.v))
             /\ last' = Ran("upload", "loaded")
        ELSE /\ uploadStatus' = uploadStatus
             /\ form' = form
             /\ last' = Ran("upload", "failed")
     /\ UNCHANGED <<triageDom, imageDom, dashDom>>

\* what the upload lane does to the page when its call settles
UploadApply(resp) ==
  LET r == uploadDocument(resp)
  IN /\ IF Usable(r)
        THEN /\ uploadStatus' = "Loaded."
             /\ form' = fillFormFromPatient(form, PatientOf(r.v.v))
             /\ last' = Ran("upload", "loaded")
        ELSE /\ uploadStatus' = MessageOr(Caught(r, "patient"), "Upload failed")
             /\ form' = form
             /\ last' = Ran("upload", "failed")
     /\ UNCHANGED <<triageDom, imageDom, dashDom>>

\* a catch handler that issues the upload again when it has failed
UploadSettleRetries(resp) ==
  /\ pc = "lanes"
  /\ inflight["upload"] > 0
  /\ UploadApply(resp)
  /\ IF Usable(uploadDocument(resp))
     THEN /\ inflight' = [inflight EXCEPT !["upload"] = @ - 1]
          /\ sent' = sent
     ELSE /\ inflight' = inflight
          /\ sent' = [sent EXCEPT !["upload"] = @ + 1]
  /\ alertMsg' = NoAlert
  /\ UNCHANGED <<accepted, srvTotal, resultSeq, dashSeq, fnVars>>

\* the upload call settles: .then / .catch of the change handler
UploadSettle(resp) ==
  /\ pc = "lanes"
  /\ inflight["upload"] > 0
  /\ UploadApply(resp)
  /\ inflight' = [inflight EXCEPT !["upload"] = @ - 1]
  /\ alertMsg' = NoAlert
  /\ UNCHANGED <<sent, accepted, srvTotal, resultSeq, dashSeq, fnVars>>

-----------------------------------------------------------------------------
(* Image analysis lane *)

\* a change handler that leaves the error panel as it is
ImageChangeKeepsError(hasFile) ==
  /\ pc = "lanes"
  /\ IF hasFile
     THEN /\ outputHidden' = FALSE
          /\ uploadStatus' = "Analyzing image with AI..."
          /\ Issue("image", "image")
          /\ last' = Ran("image", "sent")
          /\ UNCHANGED <<errorHidden, errorText>>
     ELSE /\ last' = Ran("image", "nofile")
          /\ UNCHANGED <<outputHidden, errorHidden, errorText, uploadStatus, inflight, sent,
                      accepted>>
  /\ alertMsg' = NoAlert
  /\ UNCHANGED <<triageDom, form, extractionText, dashDom, srvTotal, resultSeq, dashSeq, fnVars>>

\* the change handler of #ehr-image-upload
ImageChange(hasFile) ==
  /\ pc = "lanes"
  /\ IF hasFile
     THEN /\ outputHidden' = FALSE
          /\ errorHidden' = TRUE
          /\ errorText' = ""
          /\ uploadStatus' = "Analyzing image with AI..."
          /\ Issue("image", "image")
          /\ last' = Ran("image", "sent")
     ELSE /\ last' = Ran("image", "nofile")
          /\ UNCHANGED <<outputHidden, errorHidden, errorText, uploadStatus, inflight, sent,
                      accepted>>
  /\ alertMsg' = NoAlert
  /\ UNCHANGED <<triageDom, form, extractionText, dashDom, srvTotal, resultSeq, dashSeq, fnVars>>

\* what the image lane does to the page when its call settles
ImageApply(resp) ==
  LET r == analyzeDocumentImage(resp)
  IN /\ IF Usable(r)
        THEN /\ uploadStatus' = "Done. Form filled from extraction."
             /\ form' = fillFormFromPatient(form, PatientOf(r.v.v))
             /\ extractionText' = RawText(r.v.v)
             /\ errorHidden' = TRUE
             /\ errorText' = ""
             /\ last' = Ran("image", "done")
        ELSE /\ uploadStatus' = "Analysis failed."
             /\ form' = form
             /\ extractionText' = Empty
             /\ errorText' = MessageOr(Caught(r, "patient"),
                                       "Analysis failed. Check your image and try again.")
             /\ errorHidden' = FALSE
             /\ last' = Ran("image", "failed")
     /\ UNCHANGED <<triageDom, outputHidden, dashDom>>

\* the analysis call settles: .then / .catch of the change handler
ImageSettle(resp) ==
  /\ pc = "lanes"
  /\ inflight["image"] > 0
  /\ ImageApply(resp)
  /\ inflight' = [inflight EXCEPT !["image"] = @ - 1]
  /\ alertMsg' = NoAlert
  /\ UNCHANGED <<sent, accepted, srvTotal, resultSeq, dashSeq, fnVars>>

-----------------------------------------------------------------------------
(* Dashboard summary *)

\* window.loadDashboardSummary called by the page that shows the dashboard
LoadDashboard ==
  /\ pc = "lanes"
  /\ Accepted < MaxTriggers
  /\ accepted' = [accepted EXCEPT !["page"] = @ + 1]
  /\ inflight' = FetchSummary(inflight)
  /\ sent' = FetchSummary(sent)
  /\ alertMsg' = NoAlert
  /\ last' = Ran("dash", "sent")
  /\ UNCHANGED <<domVars, srvTotal, resultSeq, dashSeq, fnVars>>

\* a catch handler that writes its message into #result-content
DashApplyIntoResultPanel(resp) ==
  LET r == dashboardSummary(resp)
  IN IF Usable(r)
     THEN /\ stats' = renderStats(r.v.v)
          /\ deptBars' = renderDeptBars(r.v.v)
          /\ recentList' = renderRecent(r.v.v, recentList)
          /\ dashSeq' = IF Has(r.v.v, "total_triages") THEN r.v.v.total_triages ELSE 0
          /\ last' = Ran("dash", "rendered")
          /\ UNCHANGED <<triageDom, uploadStatus, form, imageDom>>
     ELSE /\ resultContent' = CouldNotLoad
          /\ UNCHANGED <<stats, deptBars, recentList, dashSeq>>
          /\ last' = Ran("dash", "failed")
          /\ UNCHANGED <<btnDisabled, btnLabel, explainContent, resultHidden, explainHidden,
                         uploadStatus, form, imageDom>>

\* what loadDashboardSummary does to the page when its fetch settles
DashApply(resp) ==
  LET r == dashboardSummary(resp)
  IN /\ IF Usable(r)
        THEN /\ stats' = renderStats(r.v.v)
             /\ deptBars' = renderDeptBars(r.v.v)
             /\ recentList' = renderRecent(r.v.v, recentList)
             /\ dashSeq' = IF Has(r.v.v, "total_triages") THEN r.v.v.total_triages ELSE 0
             /\ last' = Ran("dash", "rendered")
        ELSE /\ recentList' = CouldNotLoad
             /\ UNCHANGED <<stats, deptBars, dashSeq>>
             /\ last' = Ran("dash", "failed")
     /\ UNCHANGED <<triageDom, uploadStatus, form, imageDom>>

\* the summary fetch settles: .then / .catch of loadDashboardSummary
DashSettle(resp) ==
  /\ pc = "lanes"
  /\ inflight["dash"] > 0
  /\ DashApply(resp)
  /\ inflight' = [inflight EXCEPT !["dash"] = @ - 1]
  /\ alertMsg' = NoAlert
  /\ UNCHANGED <<sent, accepted, srvTotal, resultSeq, fnVars>>

-----------------------------------------------------------------------------

Next ==
  \/ \E v \in SymptomInputs : EditSymptoms(v)
  \/ Submit
  \/ \E resp \in TriageResponses : TriageSettle(resp)
  \/ \E hasFile \in BOOLEAN : UploadChange(hasFile)
  \/ \E resp \in ExtractionResponses : UploadSettle(resp)
  \/ \E hasFile \in BOOLEAN : ImageChange(hasFile)
  \/ \E resp \in ExtractionResponses : ImageSettle(resp)
  \/ LoadDashboard
  \/ \E resp \in DashResponses(srvTotal) : DashSettle(resp)

Spec == Init /\ [][Next]_vars

\* every call that has been issued settles in the end
Settles ==
  /\ WF_vars(\E resp \in TriageResponses : TriageSettle(resp))
  /\ WF_vars(\E resp \in ExtractionResponses : UploadSettle(resp))
  /\ WF_vars(\E resp \in ExtractionResponses : ImageSettle(resp))
  /\ WF_vars(\E resp \in DashResponses(srvTotal) : DashSettle(resp))

SpecLive == Spec /\ Settles
-----------------------------------------------------------------------------
(* The transport functions on their own, over every kind of answer *)

Bodies ==
  {BadJson, NullJson, Obj(NoKeys), Obj([error |-> "model unavailable"]), Obj([error |-> ""])}
  \cup {Obj(d) : d \in TriageData}

Responses == {NetFail(m) : m \in NetMessages} \cup {Http(ok, b) : ok \in BOOLEAN, b \in Bodies}

ApiOps == {"triage", "uploadDocument", "analyzeDocumentImage", "dashboardSummary"}

InitApi ==
  /\ PageLoaded
  /\ pc = "call"
  /\ arg \in [op : ApiOps, resp : Responses]
  /\ ret = Undefined

CallTriage ==
  /\ pc = "call" /\ arg.op = "triage"
  /\ ret' = triage(arg.resp)
  /\ pc' = "done"
  /\ UNCHANGED <<domVars, alertMsg, netVars, resultSeq, dashSeq, last, arg>>

CallUploadDocument ==
  /\ pc = "call" /\ arg.op = "uploadDocument"
  /\ ret' = uploadDocument(arg.resp)
  /\ pc' = "done"
  /\ UNCHANGED <<domVars, alertMsg, netVars, resultSeq, dashSeq, last, arg>>

CallAnalyzeDocumentImage ==
  /\ pc = "call" /\ arg.op = "analyzeDocumentImage"
  /\ ret' = analyzeDocumentImage(arg.resp)
  /\ pc' = "done"
  /\ UNCHANGED <<domVars, alertMsg, netVars, resultSeq, dashSeq, last, arg>>

CallDashboardSummary ==
  /\ pc = "call" /\ arg.op = "dashboardSummary"
  /\ ret' = dashboardSummary(arg.resp)
  /\ pc' = "done"
  /\ UNCHANGED <<domVars, alertMsg, netVars, resultSeq, dashSeq, last, arg>>

NextApi == CallTriage \/ CallUploadDocument \/ CallAnalyzeDocumentImage \/ CallDashboardSummary

SpecApi == InitApi /\ [][NextApi]_vars

-----------------------------------------------------------------------------
(* fillFormFromPatient on its own, over every patient object *)

PatientKeys ==
  {"age", "gender", "symptoms", "blood_pressure_systolic", "blood_pressure_diastolic",
   "heart_rate", "temperature", "pre_existing_conditions"}

\* patient objects with every key present; AllPatients drops keys from them
FullPatients ==
  [age : {0, 52}, gender : {Empty, Str("Male")}, symptoms : {Empty, Str("fever")},
   blood_pressure_systolic : {130}, blood_pressure_diastolic : {85}, heart_rate : {72},
   temperature : {37},
   pre_existing_conditions : {<< >>, <<Str("asthma"), Str("diabetes")>>}]

AllPatients ==
  {[k \in S |-> v[k]] : S \in (SUBSET PatientKeys) \ {{}}, v \in FullPatients}
  \cup {NoKeys, Undefined}

\* a form the user has filled in
FilledForm ==
  [age |-> Str("40"), gender |-> Str("Female"), symptoms |-> Str("chest pain"),
   blood_pressure |-> Str("110/70"), heart_rate |-> Str("60"), temperature |-> Str("36"),
   pre_existing_conditions |-> Str("none")]

InitFill ==
  /\ PageLoaded
  /\ pc = "call"
  /\ arg \in [form : {EmptyForm, FilledForm}, p : AllPatients]
  /\ ret = Undefined

\* form is #triage-form as the user left it, then fillFormFromPatient(arg.p) runs
FillStart ==
  /\ pc = "call"
  /\ form' = arg.form
  /\ pc' = "filling"
  /\ UNCHANGED <<triageDom, uploadStatus, imageDom, dashDom, alertMsg, netVars, resultSeq,
                 dashSeq, last, arg, ret>>

FillForm ==
  /\ pc = "filling"
  /\ form' = fillFormFromPatient(form, arg.p)
  /\ pc' = "done"
  /\ UNCHANGED <<triageDom, uploadStatus, imageDom, dashDom, alertMsg, netVars, resultSeq,
                 dashSeq, last, arg, ret>>

NextFill == FillStart \/ FillForm

SpecFill == InitFill /\ [][NextFill]_vars

-----------------------------------------------------------------------------
(* The renderers on their own, a text of the response being any text *)

Chars == {"a", "<", ">", "&"}

Texts == UNION {[1..n -> Chars] : n \in 0..MaxLen}

TriageSlots ==
  {"risk_level", "recommended_department", "summary", "alternative", "factor", "impact",
   "description"}
SummarySlots == {"department", "recent_risk_level", "recent_department", "symptoms"}

\* a triage result whose text in slot is t
TriageWith(slot, t) ==
  [risk_level |-> IF slot = "risk_level" THEN t ELSE Str("High"),
   confidence_score |-> 875,
   recommended_department |-> IF slot = "recommended_department" THEN t ELSE Str("Cardiology"),
   alternative_departments |-> <<Str("ER"), IF slot = "alternative" THEN t ELSE Str("ICU")>>,
   summary |-> IF slot = "summary" THEN t ELSE Str("observe"),
   contributing_factors |->
     <<[factor |-> IF slot = "factor" THEN t ELSE Str("age"),
        impact |-> IF slot = "impact" THEN t ELSE Str("high"),
        description |-> IF slot = "description" THEN t ELSE Str("over 60")]>>]

\* a dashboard summary whose text in slot is t (scenario 5 of the design otherwise)
SummaryWith(slot, t) ==
  [by_risk_level |-> [High |-> 3, Low |-> 1],
   by_department |-> <<<<IF slot = "department" THEN t ELSE Str("ER"), 3>>,
                       <<Str("Cardiology"), 1>>>>,
   total_triages |-> 4,
   recent |-> <<[risk_level |-> IF slot = "recent_risk_level" THEN t ELSE Str("High"),
                 recommended_department |-> IF slot = "recent_department" THEN t ELSE Str("ER"),
                 confidence_score |-> 870,
                 patient_input |-> [symptoms |-> IF slot = "symptoms" THEN t
                                                 ELSE Str("chest pain")]]>>]

InitRender ==
  /\ PageLoaded
  /\ pc = "call"
  /\ arg \in [fn : {"triage"}, slot : TriageSlots, text : Texts]
            \cup [fn : {"summary"}, slot : SummarySlots, text : Texts]
  /\ ret = Undefined

\* lines 240-241 of the submit handler, on a triage result
RenderTriage ==
  /\ pc = "call" /\ arg.fn = "triage"
  /\ resultContent' = renderTriageResult(TriageWith(arg.slot, arg.text))
  /\ explainContent' = renderExplainability(TriageWith(arg.slot, arg.text))
  /\ pc' = "done"
  /\ UNCHANGED <<btnDisabled, btnLabel, resultHidden, explainHidden, uploadStatus, form,
                 imageDom, dashDom, alertMsg, netVars, resultSeq, dashSeq, last, arg, ret>>

\* the success handler of loadDashboardSummary, on a summary
RenderSummary ==
  /\ pc = "call" /\ arg.fn = "summary"
  /\ stats' = renderStats(SummaryWith(arg.slot, arg.text))
  /\ deptBars' = renderDeptBars(SummaryWith(arg.slot, arg.text))
  /\ recentList' = renderRecent(SummaryWith(arg.slot, arg.text), recentList)
  /\ pc' = "done"
  /\ UNCHANGED <<triageDom, uploadStatus, form, imageDom, alertMsg, netVars, resultSeq,
                 dashSeq, last, arg, ret>>

NextRender == RenderTriage \/ RenderSummary

SpecRender == InitRender /\ [][NextRender]_vars
-----------------------------------------------------------------------------
(* The two renderings of a confidence score, over every score *)

\* a score that is given, or no score at all
ConfInputs ==
  [fn : {"result", "recent"}, given : {TRUE}, score : 0..MaxScore]
  \cup [fn : {"result", "recent"}, given : {FALSE}, score : {0}]

\* a triage result with the confidence of input a
TriageOfConf(a) ==
  IF a.given
  THEN [risk_level |-> Str("High"), recommended_department |-> Str("Cardiology"),
        confidence_score |-> a.score]
  ELSE [risk_level |-> Str("High"), recommended_department |-> Str("Cardiology")]

\* a summary whose one recent entry has the confidence of input a
SummaryOfConf(a) ==
  [recent |-> <<IF a.given
                THEN [risk_level |-> Str("High"), recommended_department |-> Str("Cardiology"),
                      confidence_score |-> a.score]
                ELSE [risk_level |-> Str("High"), recommended_department |-> Str("Cardiology")]>>]

InitConf ==
  /\ PageLoaded
  /\ pc = "call"
  /\ arg \in ConfInputs
  /\ ret = Undefined

\* line 240 of the submit handler
RenderResultConf ==
  /\ pc = "call" /\ arg.fn = "result"
  /\ resultContent' = renderTriageResult(TriageOfConf(arg))
  /\ pc' = "done"
  /\ UNCHANGED <<btnDisabled, btnLabel, explainContent, resultHidden, explainHidden,
                 uploadStatus, form, imageDom, dashDom, alertMsg, netVars, resultSeq,
                 dashSeq, last, arg, ret>>

\* lines 85-93 of the success handler of loadDashboardSummary
RenderRecentConf ==
  /\ pc = "call" /\ arg.fn = "recent"
  /\ recentList' = renderRecent(SummaryOfConf(arg), recentList)
  /\ pc' = "done"
  /\ UNCHANGED <<triageDom, uploadStatus, form, imageDom, stats, deptBars, alertMsg,
                 netVars, resultSeq, dashSeq, last, arg, ret>>

NextConf == RenderResultConf \/ RenderRecentConf

SpecConf == InitConf /\ [][NextConf]_vars
-----------------------------------------------------------------------------
(* Properties *)

\* C1: whenever a triage call has just settled, with a result, with a server error, with
\* a network failure or with a result the success handler cannot use, the submit button
\* is enabled and carries its original label.
C1_ButtonRestoredOnEverySettlement ==
  last.h = "triage" => (btnDisabled = FALSE /\ btnLabel = OriginalLabel)

\* a triage call has just been rejected with an unparseable error body, and the button is
\* restored
C1_Witness ==
  /\ last = Ran("triage", "failed")
  /\ alertMsg = SyntaxMsg
  /\ accepted["triage"] > 0
  /\ btnDisabled = FALSE
  /\ btnLabel = OriginalLabel

\* C2: a submit whose symptoms field is empty or blank issues no request: the validation
\* alert is shown and the button, the two panels and the dashboard are as before.
C2_EmptySymptomsIssueNoCall ==
  [][(last'.h = "submit" /\ Trim(form.symptoms) = Empty)
       => /\ alertMsg' = "Please enter symptoms."
          /\ last'.out = "invalid"
          /\ UNCHANGED <<inflight, sent, accepted>>
          /\ UNCHANGED <<triageDom, dashDom>>]_vars

\* a submit of a blank (not empty) symptoms field has just been refused while an upload
\* is in flight
C2_Witness ==
  /\ last = Ran("submit", "invalid")
  /\ form.symptoms = <<" ">>
  /\ alertMsg = "Please enter symptoms."
  /\ inflight["triage"] = 0
  /\ sent["triage"] = 0

GenericMessage(op) ==
  CASE op = "triage" -> "Triage failed"
    [] op = "uploadDocument" -> "Upload failed"
    [] op = "analyzeDocumentImage" -> "Analysis failed"

\* the message the design promises for a non-success response
PromisedMessage(body, generic) ==
  IF body.json = "obj" /\ Has(body.v, "error") /\ body.v.error # "" THEN body.v.error
  ELSE generic

\* C3: for the three posting calls, a non-success response is a failure whose message is
\* the server's error message when there is one and the operation's generic message
\* otherwise, also when the error body is not JSON.
C3_FailureMessagePerOperation ==
  (pc = "done" /\ arg.op # "dashboardSummary" /\ arg.resp.net /\ ~arg.resp.ok)
    => ret = Rejected(PromisedMessage(arg.resp.body, GenericMessage(arg.op)))

ImageStatuses ==
  {"Analyzing image with AI...", "Done. Form filled from extraction.", "Analysis failed."}

\* C4: a failure of one lane's call changes nothing another lane has set or is responsible
\* for.  The status text is the image lane's when the image lane wrote it last, and the
\* upload lane's otherwise.
C4_FailureTouchesNoOtherLane ==
  [][/\ (last' = Ran("triage", "failed"))
          => UNCHANGED <<uploadStatus, form, imageDom, dashDom>>
     /\ (last' = Ran("upload", "failed"))
          => /\ UNCHANGED <<triageDom, form, imageDom, dashDom>>
             /\ (uploadStatus \in ImageStatuses => uploadStatus' = uploadStatus)
     /\ (last' = Ran("image", "failed"))
          => /\ UNCHANGED <<triageDom, form, dashDom>>
             /\ (uploadStatus \notin ImageStatuses => uploadStatus' = uploadStatus)
     /\ (last' = Ran("dash", "failed"))
          => UNCHANGED <<triageDom, uploadStatus, form, imageDom>>]_vars

\* C5 as stated: in every state the dashboard covers the outcome the result panel shows.
C5_PanelsNeverStale == dashSeq >= resultSeq

\* C5 amended: the result panel comes first.  The step that renders an outcome issues one
\* summary fetch and leaves the dashboard as it was; the dashboard changes only in a step
\* that settles a summary fetch.
C5_DashboardFollowsResult ==
  [][/\ (last' = Ran("triage", "rendered"))
          => /\ sent'["dash"] = sent["dash"] + 1
             /\ inflight'["dash"] = inflight["dash"] + 1
             /\ UNCHANGED <<dashDom, dashSeq>>
     /\ (dashDom' # dashDom \/ dashSeq' # dashSeq)
          => /\ last'.h = "dash"
             /\ inflight'["dash"] = inflight["dash"] - 1]_vars

\* an outcome has just been rendered that the dashboard does not cover, its refresh in
\* flight
C5_Witness ==
  /\ last = Ran("triage", "rendered")
  /\ resultHidden = FALSE
  /\ resultSeq > dashSeq
  /\ inflight["dash"] > 0

Special == {"<", ">", "&"}

\* no piece of markup that came out of a response holds a markup character
EscapedMarkup(m) ==
  \A i \in 1..Len(m) : m[i].k = "val" => \A j \in 1..Len(m[i].t) : m[i].t[j] \notin Special

\* C6: every text of a response that a renderer puts into markup is escaped.
C6_ResponseTextIsEscaped ==
  pc = "done" => /\ EscapedMarkup(resultContent)
                 /\ EscapedMarkup(explainContent)
                 /\ EscapedMarkup(deptBars)
                 /\ EscapedMarkup(recentList)

\* a summary fetch that failed: no answer, a non-success answer, or a body that is not JSON
FetchFailed(resp) == ~resp.net \/ ~resp.ok \/ resp.body.json = "bad"

\* C7: a failed summary fetch puts the fixed message into the recent feed, shows no alert
\* and leaves the three counts and the department list as they were.
C7_FailedSummaryOnlyDegradesFeed ==
  [][\A resp \in DashResponses(srvTotal) :
       (FetchFailed(resp) /\ DashSettle(resp))
         => /\ recentList' = CouldNotLoad
            /\ alertMsg' = NoAlert
            /\ UNCHANGED <<stats, deptBars>>]_vars

\* C8: the dashboard refresh is fire-and-forget.  The step that renders a triage leaves
\* both panels visible and the button restored while the refresh is still in flight, and
\* no step of the refresh, however it ends, changes the panels or the button.
C8_RefreshLeavesTriageAlone ==
  [][/\ (last'.h = "dash") => UNCHANGED <<panelDom, btnDisabled, btnLabel>>
     /\ (last' = Ran("triage", "rendered"))
          => /\ inflight'["dash"] > 0
             /\ resultHidden' = FALSE /\ explainHidden' = FALSE
             /\ btnDisabled' = FALSE /\ btnLabel' = OriginalLabel]_vars

\* the refresh a rendered triage started has just failed; the panels show that triage
C8_Witness ==
  /\ last = Ran("dash", "failed")
  /\ accepted["page"] = 0
  /\ resultSeq = 1
  /\ resultHidden = FALSE /\ explainHidden = FALSE
  /\ resultContent # << >>
  /\ btnDisabled = FALSE

\* a text or a list that is there and not empty
NonEmpty(p, k) == Has(p, k) /\ p[k] # << >>

\* C9: filling is partial and additive.  A field is overwritten exactly when the patient
\* object carries a value for it and keeps its content otherwise: a number that is there
\* (0 included) for age, heart rate and temperature, a text or list that is there and not
\* empty for gender, symptoms and the conditions.  Blood pressure becomes
\* systolic/diastolic when both are there, systolic when only systolic is, and is kept
\* when systolic is absent.
C9_FilledExactlyWhenCarried ==
  pc = "done" =>
    LET p == arg.p
        f == arg.form
    IN IF p = Undefined THEN form = f
       ELSE /\ form.age = IF Has(p, "age") THEN NumToText(p.age) ELSE f.age
            /\ form.gender = IF NonEmpty(p, "gender") THEN p.gender ELSE f.gender
            /\ form.symptoms = IF NonEmpty(p, "symptoms") THEN p.symptoms ELSE f.symptoms
            /\ form.heart_rate = IF Has(p, "heart_rate") THEN NumToText(p.heart_rate)
                                 ELSE f.heart_rate
            /\ form.temperature = IF Has(p, "temperature") THEN NumToText(p.temperature)
                                  ELSE f.temperature
            /\ form.pre_existing_conditions =
                 IF NonEmpty(p, "pre_existing_conditions")
                 THEN Join(p.pre_existing_conditions, <<",", " ">>)
                 ELSE f.pre_existing_conditions
            /\ form.blood_pressure =
                 IF Has(p, "blood_pressure_systolic") /\ Has(p, "blood_pressure_diastolic")
                 THEN NumToText(p.blood_pressure_systolic) \o <<"/">>
                      \o NumToText(p.blood_pressure_diastolic)
                 ELSE IF Has(p, "blood_pressure_systolic")
                 THEN NumToText(p.blood_pressure_systolic)
                 ELSE f.blood_pressure

\* a patient with systolic only and an empty gender has been filled into a filled form:
\* blood pressure is the systolic value, gender and the rest are the user's
C9_Witness ==
  /\ pc = "done"
  /\ arg.form = FilledForm
  /\ arg.p = [blood_pressure_systolic |-> 130, gender |-> Empty]
  /\ form = [FilledForm EXCEPT !.blood_pressure = <<"1", "3", "0">>]

\* C10: a failed image analysis sets the status to the failure indicator, clears the
\* extracted text, shows the error panel with the failure's message (the fixed fallback
\* when the failure has none) and leaves every form field as it was.
C10_ImageFailureKeepsForm ==
  [][(last' = Ran("image", "failed"))
       => /\ uploadStatus' = "Analysis failed."
          /\ extractionText' = Empty
          /\ errorHidden' = FALSE
          /\ errorText' # ""
          /\ form' = form
          /\ \A resp \in ExtractionResponses :
               (ImageSettle(resp) /\ analyzeDocumentImage(resp).st = "rejected")
                 => errorText' = IF analyzeDocumentImage(resp).msg # ""
                                 THEN analyzeDocumentImage(resp).msg
                                 ELSE "Analysis failed. Check your image and try again."]_vars

\* an image analysis has just failed after an upload filled the form from scenario 4's
\* patient: the fields the upload filled are still there
C10_Witness ==
  /\ last = Ran("image", "failed")
  /\ accepted["upload"] = 1 /\ accepted["image"] = 1
  /\ form.age = <<"5", "2">>
  /\ form.blood_pressure = <<"1", "3", "0", "/", "8", "5">>
  /\ errorHidden = FALSE
  /\ errorText = "model unavailable"
  /\ uploadStatus = "Analysis failed."

\* the endpoints a user action posts to, named as the trigger that posts to them
Posting == {"triage", "upload", "image"}

\* C11: every transport call is fire-once.  An accepted submit, upload or image choice
\* issues exactly one request, to its own endpoint; no other step issues a request to a
\* posting endpoint, a step that applies a failure least of all; so for each of the three
\* endpoints the requests issued are as many as the triggers accepted.
C11_FireOnce ==
  /\ [](\A e \in Posting : sent[e] = accepted[e])
  /\ [][/\ (last' = Ran("submit", "sent")) => sent' = [sent EXCEPT !["triage"] = @ + 1]
        /\ (last' = Ran("upload", "sent")) => sent' = [sent EXCEPT !["upload"] = @ + 1]
        /\ (last' = Ran("image", "sent")) => sent' = [sent EXCEPT !["image"] = @ + 1]
        /\ (last'.out = "failed") => sent' = sent
        /\ (last'.out # "sent") => \A e \in Posting : sent'[e] = sent[e]]_vars

\* an upload has just failed and a triage failed before it: one request went to each of
\* the two endpoints and none is in flight
C11_Witness ==
  /\ last = Ran("upload", "failed")
  /\ accepted["upload"] = 1 /\ sent["upload"] = 1 /\ inflight["upload"] = 0
  /\ accepted["triage"] = 1 /\ sent["triage"] = 1 /\ inflight["triage"] = 0
  /\ resultHidden = TRUE

\* a lane's trigger gets past its handler's checks and issues its call
UploadStarts == UploadChange(TRUE) /\ last' = Ran("upload", "sent")
ImageStarts == ImageChange(TRUE) /\ last' = Ran("image", "sent")
TriageStarts == Submit /\ last' = Ran("submit", "sent")

\* C12: the lanes do not block one another.  While a triage call is in flight a chosen
\* document and a chosen image still start their lanes, and while an upload or an analysis
\* is in flight a submit with symptoms filled in still starts a triage.  (A run of the
\* model accepts MaxTriggers user actions; the states looked at have one left.)
C12_LanesDoNotBlock ==
  (pc = "lanes" /\ Accepted < MaxTriggers) =>
    /\ (inflight["triage"] > 0) => (ENABLED UploadStarts /\ ENABLED ImageStarts)
    /\ (inflight["upload"] > 0 \/ inflight["image"] > 0)
         => (SymptomsValid(form) => ENABLED TriageStarts)

\* an upload has just been started while a triage call is in flight and the button is
\* disabled
C12_Witness ==
  /\ last = Ran("upload", "sent")
  /\ inflight["triage"] = 1 /\ btnDisabled = TRUE
  /\ inflight["upload"] = 1
  /\ uploadStatus = "Uploading..."

\* the blood pressure a patient object carries
CarriedPressure(p) ==
  IF Has(p, "blood_pressure_diastolic")
  THEN NumToText(p.blood_pressure_systolic) \o <<"/">> \o NumToText(p.blood_pressure_diastolic)
  ELSE NumToText(p.blood_pressure_systolic)

\* every field the patient object p carries holds p's value in form f
HoldsCarried(f, p) ==
  /\ Has(p, "age") => f.age = NumToText(p.age)
  /\ NonEmpty(p, "gender") => f.gender = p.gender
  /\ NonEmpty(p, "symptoms") => f.symptoms = p.symptoms
  /\ Has(p, "blood_pressure_systolic") => f.blood_pressure = CarriedPressure(p)
  /\ Has(p, "heart_rate") => f.heart_rate = NumToText(p.heart_rate)
  /\ Has(p, "temperature") => f.temperature = NumToText(p.temperature)
  /\ NonEmpty(p, "pre_existing_conditions")
       => f.pre_existing_conditions = Join(p.pre_existing_conditions, <<",", " ">>)

\* the responses of an extraction that carry a patient object
WithPatient == {resp \in ExtractionResponses :
                  resp.net /\ resp.ok /\ resp.body.json = "obj" /\ Has(resp.body.v, "patient")}

\* C13: there is no cancellation.  A call in flight can settle with any response in every
\* state, whatever the user typed or started since; a successful response then sets its
\* lane's status and leaves every form field it carries holding its value, whatever the
\* field held.  So of two overlapping extractions the one that arrives last decides the
\* fields both carry.
C13_LateResponseStillApplies ==
  /\ [](pc = "lanes" =>
          /\ (inflight["upload"] > 0) => \A resp \in WithPatient : ENABLED UploadSettle(resp)
          /\ (inflight["image"] > 0) => \A resp \in WithPatient : ENABLED ImageSettle(resp))
  /\ [][\A resp \in WithPatient :
          /\ UploadSettle(resp)
               => (uploadStatus' = "Loaded." /\ HoldsCarried(form', resp.body.v.patient))
          /\ ImageSettle(resp)
               => /\ uploadStatus' = "Done. Form filled from extraction."
                  /\ extractionText' = RawText(resp.body.v)
                  /\ HoldsCarried(form', resp.body.v.patient)]_vars

\* an upload and an analysis have both been applied, the upload last: the blood pressure
\* both carry is the upload's, the age only the analysis carries is the analysis's
C13_Witness ==
  /\ last = Ran("upload", "loaded")
  /\ accepted["upload"] = 1 /\ accepted["image"] = 1
  /\ inflight["upload"] = 0 /\ inflight["image"] = 0
  /\ extractionText = Str("No text extracted.")
  /\ form.age = <<"5", "2">>
  /\ form.blood_pressure = <<"1", "2", "0">>
  /\ form.symptoms = Str("fever")

\* round(score x 100) for a score in thousandths: the whole number within half a percent,
\* halves going up
NearestPercent(score) == CHOOSE n \in 0..(score \div 10 + 1) : 10 * n - 5 <= score /\ score < 10 * n + 5

\* the confidence as the result panel shows it: segments 7 and 8 of the markup
ResultShows(n) ==
  resultContent[7] = Num(n) /\ resultContent[8] = Lit("%</span></div>")

\* the confidence as the one entry of the recent feed shows it: what stands between the
\* opening of the last span and its closing
RecentShows(conf) ==
  LET open == Lit("<span style=\"font-size:0.75rem;color:var(--color-text-muted)\">")
      i == CHOOSE j \in 1..Len(recentList) : recentList[j] = open
  IN SubSeq(recentList, i + 1, Len(recentList) - 1) = conf

\* C14: a score that is given, 0 included, is shown as round(score x 100) and '%' by the
\* result panel and by the recent feed alike; a score that is absent is shown as '0%' by
\* the result panel and as nothing by the recent feed.
C14_ConfidenceShownAlike ==
  pc = "done" =>
    IF arg.given
    THEN IF arg.fn = "result" THEN ResultShows(NearestPercent(arg.score))
         ELSE RecentShows(<<Num(NearestPercent(arg.score)), Lit("%")>>)
    ELSE IF arg.fn = "result" THEN ResultShows(0)
         ELSE RecentShows(<< >>)

\* the triage responses the success handler renders
Rendered == {resp \in TriageResponses : resp.net /\ resp.ok /\ resp.body.json = "obj"}

\* C15: a step of the triage lane issues a summary fetch only when it is the success
\* handler of a triage response, and then it issues one, with both panels holding what the
\* renderers make of that response and both panels visible.  A failed triage and a
\* refused submit leave both panels' content and visibility as they were and issue no
\* summary fetch.
C15_FetchOnlyAfterRender ==
  [][/\ (last'.h \in {"submit", "triage"} /\ sent'["dash"] # sent["dash"])
          => /\ last' = Ran("triage", "rendered")
             /\ sent'["dash"] = sent["dash"] + 1
             /\ resultHidden' = FALSE /\ explainHidden' = FALSE
             /\ \E resp \in Rendered :
                  /\ TriageSettle(resp)
                  /\ resultContent' = renderTriageResult(resp.body.v)
                  /\ explainContent' = renderExplainability(resp.body.v)
     /\ (last' = Ran("triage", "rendered")) => sent'["dash"] = sent["dash"] + 1
     /\ (last' = Ran("triage", "failed") \/ last' = Ran("submit", "invalid"))
          => /\ UNCHANGED panelDom
             /\ sent'["dash"] = sent["dash"]
             /\ inflight'["dash"] = inflight["dash"]]_vars

\* a second triage has just failed on the JSON value null after a first was rendered: the
\* panels still show the first, and one summary fetch has been issued
C15_Witness ==
  /\ last = Ran("triage", "failed")
  /\ alertMsg = NullMsg("risk_level")
  /\ accepted["triage"] = 2
  /\ resultSeq = 1
  /\ resultHidden = FALSE /\ explainHidden = FALSE
  /\ resultContent # << >>
  /\ sent["dash"] = 1

InProgressStatuses == {"Uploading...", "Analyzing image with AI..."}

\* C16: if every issued call settles, every started lane ends.  A submitted triage leads
\* to the button enabled with its original label, a started upload to the upload lane's
\* success or failure handler having written a status that is no in-progress text, a
\* started analysis to 'Done. Form filled from extraction.' or 'Analysis failed.'.  And
\* nothing but a settling call ends a lane: the button is re-enabled only by a step that
\* settles a triage call, and an in-progress status is replaced only by a step of the
\* upload or the image lane.
C16_EveryLaneEnds ==
  /\ (last = Ran("submit", "sent")) ~> (btnDisabled = FALSE /\ btnLabel = OriginalLabel)
  /\ (last = Ran("upload", "sent"))
       ~> (last.h = "upload" /\ last.out \in {"loaded", "failed"}
           /\ uploadStatus \notin InProgressStatuses)
  /\ (last = Ran("image", "sent"))
       ~> (last.h = "image" /\ last.out \in {"done", "failed"}
           /\ uploadStatus \in {"Done. Form filled from extraction.", "Analysis failed."})
  /\ [][/\ (btnDisabled /\ ~btnDisabled') => (last'.h = "triage" /\ inflight["triage"] > 0)
        /\ (uploadStatus \in InProgressStatuses /\ uploadStatus' # uploadStatus)
             => last'.h \in {"upload", "image"}]_vars

\* an analysis has ended with its completion status while a triage call has not settled:
\* the button is still disabled with the in-progress label
C16_Witness ==
  /\ last = Ran("image", "done")
  /\ uploadStatus = "Done. Form filled from extraction."
  /\ inflight["image"] = 0
  /\ inflight["triage"] = 1
  /\ btnDisabled = TRUE /\ btnLabel = InProgressLabel

\* the raw text of an analysis result: raw_extraction, else raw, else the fixed text
ClaimedRaw(res) ==
  IF Has(res, "patient") /\ NonEmpty(res.patient, "raw_extraction") THEN res.patient.raw_extraction
  ELSE IF Has(res, "patient") /\ NonEmpty(res.patient, "raw") THEN res.patient.raw
  ELSE <<"No text extracted.">>

\* the responses of an extraction the success handler applies
Applied == {resp \in ExtractionResponses : resp.net /\ resp.ok /\ resp.body.json = "obj"}

\* C17: the step that starts an analysis hides and empties the error panel, reveals the
\* output panel and issues the call; the step that applies a successful analysis leaves
\* the error panel hidden and empty and puts the raw text into the text display.  So
\* right after a start or an applied success the error panel is hidden.
C17_ErrorPanelHiddenOnStartAndSuccess ==
  /\ [](last \in {Ran("image", "sent"), Ran("image", "done")}
          => (errorHidden = TRUE /\ errorText = ""))
  /\ [][/\ (last' = Ran("image", "sent"))
             => /\ outputHidden' = FALSE
                /\ errorHidden' = TRUE /\ errorText' = ""
                /\ sent'["image"] = sent["image"] + 1
        /\ \A resp \in Applied :
             ImageSettle(resp)
               => /\ last' = Ran("image", "done")
                  /\ errorHidden' = TRUE /\ errorText' = ""
                  /\ extractionText' = ClaimedRaw(resp.body.v)]_vars

\* a second analysis has just been started after a first one failed: the error panel the
\* failure had shown is hidden and empty again, the output panel is visible
C17_Witness ==
  /\ last = Ran("image", "sent")
  /\ accepted["image"] = 2 /\ inflight["image"] = 1
  /\ extractionText = Empty
  /\ errorHidden = TRUE /\ errorText = ""
  /\ outputHidden = FALSE

NoDataYet == <<Lit("<p class=\"empty-state\" style=\"margin:0;\">No data yet.</p>")>>

\* the summaries the success handler of loadDashboardSummary is given
Summaries(n) == {resp \in DashResponses(n) : resp.net /\ resp.ok /\ resp.body.json = "obj"}

\* C18: applying a summary whose recent list is absent or empty leaves the recent feed as
\* it was, a message of an earlier failed fetch included; applying a summary with no
\* departments puts the fixed 'No data yet.' placeholder into the department list.
C18_EmptyRecentKeepsFeed ==
  [][\A resp \in Summaries(srvTotal) :
       DashSettle(resp)
         => /\ (~Has(resp.body.v, "recent") \/ resp.body.v.recent = << >>)
                 => recentList' = recentList
            /\ (~Has(resp.body.v, "by_department") \/ resp.body.v.by_department = << >>)
                 => deptBars' = NoDataYet]_vars

\* a summary with nothing recent and no departments has just been applied after a fetch
\* that failed: the feed still holds the failure's message, the department list holds
\* the placeholder
C18_Witness ==
  /\ last = Ran("dash", "rendered")
  /\ accepted["page"] = 2 /\ inflight["dash"] = 0
  /\ recentList = CouldNotLoad
  /\ deptBars = NoDataYet
  /\ stats.high = <<"0">>

\* the button is disabled with the in-progress label exactly when a triage call is in
\* flight, and there is at most one
ButtonTracksCall ==
  /\ inflight["triage"] <= 1
  /\ (inflight["triage"] > 0) => (btnDisabled = TRUE /\ btnLabel = InProgressLabel)
  /\ (inflight["triage"] = 0) => (btnDisabled = FALSE /\ btnLabel = OriginalLabel)

\* C19: the button tracks the call as long as no submit fires on a disabled button: the
\* page starts so, and every step that is not a submit on a disabled button keeps it so.
\* The handler has no guard of its own: when a submit has fired on a disabled button and
\* two calls are in flight, the first to settle enables the button with the other still
\* in flight.
C19_ButtonTracksCallUnlessResubmitted ==
  /\ ButtonTracksCall
  /\ [][/\ (ButtonTracksCall /\ ~(last'.h = "submit" /\ btnDisabled)) => ButtonTracksCall'
        /\ (last'.h = "submit" /\ btnDisabled /\ SymptomsValid(form))
             => (last' = Ran("submit", "sent") /\ inflight'["triage"] = inflight["triage"] + 1)
        /\ (last'.h = "triage" /\ inflight["triage"] > 1)
             => (btnDisabled' = FALSE /\ inflight'["triage"] > 0)]_vars

\* a second triage has been submitted after the first settled: one call is in flight and
\* the button is disabled with the in-progress label
C19_Witness ==
  /\ last = Ran("submit", "sent")
  /\ accepted["triage"] = 2
  /\ inflight["triage"] = 1
  /\ btnDisabled = TRUE /\ btnLabel = InProgressLabel

\* both panels hold what the renderers make of the triage result d
ShowsResult(d) ==
  resultContent = renderTriageResult(d) /\ explainContent = renderExplainability(d)

\* C20: the result panel and the explainability panel are hidden together or visible
\* together; when visible they hold the renderings of one and the same triage result; a
\* step changes a panel only by applying a successful triage response, and then both
\* panels hold the renderings of that response; no step hides a visible panel.
C20_PanelsGoTogether ==
  /\ [](resultHidden = explainHidden)
  /\ [](resultHidden = FALSE => \E d \in TriageData : ShowsResult(d))
  /\ [][/\ (resultHidden = FALSE) => (resultHidden' = FALSE)
        /\ (explainHidden = FALSE) => (explainHidden' = FALSE)
        /\ (panelDom' # panelDom) => last' = Ran("triage", "rendered")
        /\ \A resp \in Rendered : TriageSettle(resp) => ShowsResult(resp.body.v)']_vars

\* an analysis has just failed after a triage was rendered: both panels are visible and
\* hold the renderings of that triage's result, factor list included
C20_Witness ==
  /\ last = Ran("image", "failed")
  /\ resultSeq = 1
  /\ resultHidden = FALSE /\ explainHidden = FALSE
  /\ \E d \in TriageData : Has(d, "summary") /\ ShowsResult(d)
====
